---------------------------- MODULE Spec2Model ----------------------------
(***************************************************************************)
(* A model of the data core of the Taiwan-stock dashboard:                 *)
(*   services/market.py   month_list, fetch_month (lru_cache), parsing,    *)
(*                        fetch_range                                      *)
(*   services/company.py  normalisation, source fallback, memoised table,  *)
(*                        search_code                                      *)
(*   services/news.py     fetch_monthly_top_news                           *)
(*   streamlist_app.py    calculate_rsi and the query pipeline             *)
(*                                                                         *)
(* Text is a sequence of one-character strings, a calendar date is the     *)
(* triple <<year, month, day>>.                                            *)
(***************************************************************************)
EXTENDS Integers, Sequences, FiniteSets, TLC

VARIABLES
    cache,        \* market: the lru_cache of fetch_month, oldest entry first
    requested,    \* market: every (ticker, marker) key fetch_month was called with
    watchArgs,    \* market: the fetch_range arguments under observation
    watchCalls,   \* market: network requests made for WatchKey
    watchFirst,   \* market: <<>> or <<result of the first call with watchArgs>>
    watchLast,    \* market: <<>> or <<result of the latest call with watchArgs>>
    watchRepeated,\* market: a second call with watchArgs has been made
    lastCall,     \* market: the arguments and outcomes of the calls recorded
    companyCache, \* company: the lru_cache of load_company_table, <<>> or <<table>>
    chainRuns,    \* company: how often the source chain has run
    companyCalls, \* company: calls of load_company_table and search_code so far
    firstTable,   \* company: <<>> or <<the table the first call got>>
    lastLoad,     \* company: <<>> or <<the sources and the outcome of the latest chain run>>
    observed,     \* company: <<>> or <<the table the latest call got>>
    lastSearch,   \* company: <<>> or <<keyword and outcome of the latest search>>
    rsiCloses,    \* rsi: the closing prices of the frame
    rsiPeriod,    \* rsi: the period argument
    rsiOut,       \* rsi: <<>> or <<what calculate_rsi did>>
    newsFeed,     \* news: the published_parsed of each feed entry, in feed order
    newsArgs,     \* news: start_d, end_d and per_month of the call
    newsZone,     \* news: the local time zone of the process
    newsOut,      \* news: <<>> or <<the mapping fetch_monthly_top_news returned>>
    appPc,        \* app: the position of the script run
    appRuns,      \* app: the script runs started after the submission
    appTable,     \* app: the table load_company_table gives in this process
    appCache,     \* app: fetch_month's cache
    appQ,         \* app: the query text of the form
    appMatches,   \* app: <<>> or <<the rows search_code returned>>
    appStock,     \* app: <<>> or <<the record picked>>
    appDf,        \* app: <<>> or <<the frame fetch_range returned>>
    appNewsRaised,\* app: the news block of this run raised
    appLog,       \* app: what this run has put on the page, in order
    monthArgs,    \* months: start_d and end_d of the call
    monthOut      \* months: <<>> or <<what month_list and fetch_range did>>

marketVars == <<cache, requested, watchArgs, watchCalls, watchFirst, watchLast,
                watchRepeated, lastCall>>

companyVars == <<companyCache, chainRuns, companyCalls, firstTable, lastLoad, observed, lastSearch>>

rsiVars == <<rsiCloses, rsiPeriod, rsiOut>>

newsVars == <<newsFeed, newsArgs, newsZone, newsOut>>

appVars == <<appPc, appRuns, appTable, appCache, appQ, appMatches, appStock, appDf,
             appNewsRaised, appLog>>

monthVars == <<monthArgs, monthOut>>

vars == <<marketVars, companyVars, rsiVars, newsVars, appVars, monthVars>>

\* what an operation of one component leaves alone
notMarket == <<companyVars, rsiVars, newsVars, appVars, monthVars>>
notCompany == <<marketVars, rsiVars, newsVars, appVars, monthVars>>
notRsi == <<marketVars, companyVars, newsVars, appVars, monthVars>>
notNews == <<marketVars, companyVars, rsiVars, appVars, monthVars>>
notApp == <<marketVars, companyVars, rsiVars, newsVars, monthVars>>
notMonths == <<marketVars, companyVars, rsiVars, newsVars, appVars>>

-----------------------------------------------------------------------------
(* Bounds of the model *)

\* months of the modelled calendar window, which starts at December 2023
NumMonths == 2
\* days of each month a caller's date or a row's date may name
MaxDay == 2
\* capacity of the fetch_month cache: lru_cache(maxsize=4096) scaled down so
\* that the cache can fill up within the window
CacheMaxSize == 2
\* network requests counted for the watched key
MaxCalls == 2
\* rows in one monthly payload
MaxRows == 2
\* rows of a company source
MaxTableRows == 2
\* runs of the company source chain
MaxChainRuns == 2
\* calls of the company directory
MaxCompanyCalls == 3
\* rows of the frame calculate_rsi gets
MaxCloses == 5
\* the closing prices 1..MaxPrice
MaxPrice == 3
\* the periods 1..MaxPeriod passed to calculate_rsi
MaxPeriod == 3
\* entries of the news feed
MaxEntries == 4
\* the values 0..MaxPerMonth of per_month
MaxPerMonth == 2
\* script runs of the dashboard after the submission
MaxRuns == 2
\* fetch_range calls of the retry specification
MaxRetryCalls == 2

-----------------------------------------------------------------------------
(* Calendar *)

\* the first month of the modelled calendar window: December 2023
WindowStart == <<2023, 12>>
\* parse_roc_date_str: int(y) + 1911
RocOffset == 1911

Min(a, b) == IF a <= b THEN a ELSE b

DateLE(a, b) ==
    \/ a[1] < b[1]
    \/ a[1] = b[1] /\ a[2] < b[2]
    \/ a[1] = b[1] /\ a[2] = b[2] /\ a[3] <= b[3]

DateLT(a, b) == DateLE(a, b) /\ a # b

IsLeap(y) == (y % 4 = 0 /\ y % 100 # 0) \/ y % 400 = 0

DaysInMonth(y, m) ==
    IF m = 2 THEN (IF IsLeap(y) THEN 29 ELSE 28)
    ELSE IF m \in {4, 6, 9, 11} THEN 30 ELSE 31

\* date(y, m, d) raises ValueError unless the triple names a calendar day
ValidDate(y, m, d) ==
    /\ y \in 1..9999
    /\ m \in 1..12
    /\ d \in 1..DaysInMonth(y, m)

\* cur += relativedelta(months=1), cur a first-of-month date
AddMonth(cur) ==
    IF cur[2] = 12 THEN <<cur[1] + 1, 1, 1>> ELSE <<cur[1], cur[2] + 1, 1>>

\* cur.strftime("%Y%m01") read as the number its eight digits spell
Marker(cur) == cur[1] * 10000 + cur[2] * 100 + 1

RECURSIVE MonthWalk(_, _)
MonthWalk(cur, last) ==
    IF DateLE(cur, last)
    THEN <<Marker(cur)>> \o MonthWalk(AddMonth(cur), last)
    ELSE <<>>

month_list(start_d, end_d) ==
    MonthWalk(<<start_d[1], start_d[2], 1>>, <<end_d[1], end_d[2], 1>>)

\* the i-th month of the window, i = 0 being WindowStart
WindowMonth(i) ==
    LET n == (WindowStart[2] - 1) + i
    IN  <<WindowStart[1] + (n \div 12), (n % 12) + 1>>

WindowMonths == {WindowMonth(i) : i \in 0..(NumMonths - 1)}

\* the dates callers pass and the endpoint reports
Dates == {<<ym[1], ym[2], d>> : ym \in WindowMonths, d \in 1..MaxDay}

-----------------------------------------------------------------------------
(* services/market.py: payloads and parsing *)

Tickers == {"2330", "2317"}

\* The JSON value the price endpoint answers with, or the failure of the request.
\*   kind   "error"  requests.get, raise_for_status or r.json() raised
\*          "list"   a JSON value that is no object
\*          "dict"   a JSON object
\*   fields "none"     "fields" absent or empty
\*          "full"     the nine column names
\*          "noDate"   the column names without the date column
\*          "noClose"  the column names without the closing price
\*          "short"    fewer names than the rows have cells
\*   data   the rows, each reduced to its date cell: <<roc year, month, day>>
\*          for "y/m/d", <<>> for text that does not split into three parts
ErrorResponse == [kind |-> "error", fields |-> "none", data |-> <<>>]

\* json.dumps({"data": [], "fields": []})
EmptyPayload == [kind |-> "dict", fields |-> "none", data |-> <<>>]

Payload(f, d) == [kind |-> "dict", fields |-> f, data |-> d]

\* the text "y/m/d" of a date in the ROC calendar
RocCell(d) == <<d[1] - RocOffset, d[2], d[3]>>

\* fetch_month's body: what one call that reaches the network returns
fetch_month(resp) ==
    IF resp.kind = "error" THEN EmptyPayload ELSE resp

\* parse_roc_date_str: the date of a cell, <<>> when it raises
parse_roc_date_str(cell) ==
    IF Len(cell) = 3 /\ ValidDate(cell[1] + RocOffset, cell[2], cell[3])
    THEN <<cell[1] + RocOffset, cell[2], cell[3]>>
    ELSE <<>>

\* month_json_to_df: [raised, rows], rows being the dates of the frame
month_json_to_df(js) ==
    IF js.kind # "dict" THEN [raised |-> TRUE, rows |-> <<>>]
    ELSE IF js.data = <<>> \/ js.fields = "none"
    THEN [raised |-> FALSE, rows |-> <<>>]
    ELSE IF js.fields # "full" THEN [raised |-> TRUE, rows |-> <<>>]
    ELSE IF \E i \in 1..Len(js.data) : parse_roc_date_str(js.data[i]) = <<>>
    THEN [raised |-> TRUE, rows |-> <<>>]
    ELSE [raised |-> FALSE,
          rows |-> [i \in 1..Len(js.data) |-> parse_roc_date_str(js.data[i])]]

-----------------------------------------------------------------------------
(* services/market.py: the memoised fetch_month and fetch_range *)

Key(stock_no, m) == <<stock_no, m>>

CacheIndex(c, k) ==
    IF \E i \in 1..Len(c) : c[i].key = k
    THEN CHOOSE i \in 1..Len(c) : c[i].key = k
    ELSE 0

RemoveAt(s, i) == SubSeq(s, 1, i - 1) \o SubSeq(s, i + 1, Len(s))

\* fetch_month without its decorator: every call runs the body
lru_fetch_month_uncached(c, k, resp) ==
    [cache |-> c, val |-> fetch_month(resp), miss |-> TRUE]

\* @lru_cache(maxsize): a hit returns the stored value and makes the entry the
\* most recent one; a miss runs the body, stores the value and, when the
\* cache is full, drops the least recently used entry
lru_fetch_month(c, k, resp) ==
    LET i == CacheIndex(c, k)
    IN  IF i > 0
        THEN [cache |-> Append(RemoveAt(c, i), c[i]), val |-> c[i].val, miss |-> FALSE]
        ELSE LET v == fetch_month(resp)
                 kept == IF Len(c) >= CacheMaxSize THEN Tail(c) ELSE c
             IN  [cache |-> Append(kept, [key |-> k, val |-> v]),
                  val |-> v, miss |-> TRUE]

RECURSIVE clip_range(_, _, _)
\* the rows of s whose date lies in [lo, hi], in order
clip_range(s, lo, hi) ==
    IF s = <<>> THEN <<>>
    ELSE IF DateLE(lo, Head(s)) /\ DateLE(Head(s), hi)
         THEN <<Head(s)>> \o clip_range(Tail(s), lo, hi)
         ELSE clip_range(Tail(s), lo, hi)

RECURSIVE InsertSorted(_, _)
InsertSorted(s, d) ==
    IF s = <<>> THEN <<d>>
    ELSE IF DateLE(d, Head(s)) THEN <<d>> \o s
    ELSE <<Head(s)>> \o InsertSorted(Tail(s), d)

RECURSIVE sort_values(_)
\* df.sort_values("日期_dt"): the dates in ascending order, equal dates kept
sort_values(s) ==
    IF s = <<>> THEN <<>> ELSE InsertSorted(sort_values(Tail(s)), Head(s))

RECURSIVE RangeLoop(_, _, _, _, _, _, _, _)
\* the for loop of fetch_range from month i on: c the cache, parts the rows
\* collected, vals the payloads read, misses the keys requested from the network
RangeLoop(stock_no, ms, i, resp, c, parts, vals, misses) ==
    IF i > Len(ms)
    THEN [raised |-> FALSE, parts |-> parts, cache |-> c, vals |-> vals,
          misses |-> misses]
    ELSE LET got == lru_fetch_month(c, Key(stock_no, ms[i]), resp[i])
             dfm == month_json_to_df(got.val)
             vals2 == Append(vals, got.val)
             misses2 == IF got.miss THEN Append(misses, Key(stock_no, ms[i]))
                        ELSE misses
         IN  IF dfm.raised
             THEN [raised |-> TRUE, parts |-> <<>>, cache |-> got.cache,
                   vals |-> vals2, misses |-> misses2]
             ELSE RangeLoop(stock_no, ms, i + 1, resp, got.cache,
                            parts \o dfm.rows, vals2, misses2)

\* fetch_range(stock_no, start_d, end_d) run on cache c, the endpoint answering
\* resp[i] if the i-th month is requested from it
fetch_range(stock_no, start_d, end_d, c, resp) ==
    LET ms == month_list(start_d, end_d)
        run == RangeLoop(stock_no, ms, 1, resp, c, <<>>, <<>>, <<>>)
    IN  [raised |-> run.raised,
         rows |-> IF run.raised THEN <<>>
                  ELSE sort_values(clip_range(run.parts, start_d, end_d)),
         cache |-> run.cache, vals |-> run.vals, misses |-> run.misses,
         months |-> ms]

-----------------------------------------------------------------------------
(* The price fetcher as a state machine *)

Args(t, s, e) == [stock_no |-> t, start_d |-> s, end_d |-> e]

Count(s, x) == Cardinality({i \in 1..Len(s) : s[i] = x})

Outcome(r) == [raised |-> r.raised, rows |-> r.rows]

\* the months the callers of the cache specification ask for
MarketMonths == {<<2023, 12>>, <<2024, 1>>}

\* whole-month ranges, as the dashboard's sidebar builds them
MarketArgs ==
    {Args(t, <<s[1], s[2], 1>>, <<e[1], e[2], DaysInMonth(e[1], e[2])>>) :
        t \in Tickers, s \in MarketMonths, e \in MarketMonths}

\* the endpoint of the cache specification, asked for marker m: the request
\* fails, or the month's one trading day (its second day) is reported
MarketResponses(m) ==
    {ErrorResponse,
     Payload("full", <<<<(m \div 10000) - RocOffset, (m \div 100) % 100, 2>>>>)}

\* the (ticker, marker) pair whose network requests are counted
WatchKey == Key(watchArgs.stock_no, Marker(watchArgs.start_d))

NoWatch == Args("2330", <<2023, 12, 1>>, <<2023, 12, 1>>)

MarketInit ==
    /\ cache = <<>>
    /\ requested = {}
    /\ watchArgs \in MarketArgs
    /\ watchCalls = 0
    /\ watchFirst = <<>>
    /\ watchLast = <<>>
    /\ watchRepeated = FALSE
    /\ lastCall = <<>>

MarketIdle ==
    /\ cache = <<>>
    /\ requested = {}
    /\ watchArgs = NoWatch
    /\ watchCalls = 0
    /\ watchFirst = <<>>
    /\ watchLast = <<>>
    /\ watchRepeated = FALSE
    /\ lastCall = <<>>

\* the answers the endpoint may give to the months of one call, alts[i]
\* being the answers it may give to the i-th month
Answers(alts) ==
    {resp \in [1..Len(alts) -> UNION {alts[i] : i \in 1..Len(alts)}] :
        \A i \in 1..Len(alts) : resp[i] \in alts[i]}

\* a caller fetches a range while the endpoint is up or down
FetchRange ==
    \E a \in MarketArgs :
      LET ms == month_list(a.start_d, a.end_d)
      IN  \E resp \in Answers([i \in 1..Len(ms) |-> MarketResponses(ms[i])]) :
            LET r == fetch_range(a.stock_no, a.start_d, a.end_d, cache, resp)
                n == watchCalls + Count(r.misses, WatchKey)
            IN  /\ n <= MaxCalls
                /\ cache' = r.cache
                /\ requested' = requested \cup
                       {Key(a.stock_no, ms[i]) : i \in 1..Len(r.vals)}
                /\ watchCalls' = n
                /\ watchFirst' = IF a = watchArgs /\ watchFirst = <<>>
                                 THEN <<Outcome(r)>> ELSE watchFirst
                /\ watchLast' = IF a = watchArgs THEN <<Outcome(r)>> ELSE watchLast
                /\ watchRepeated' =
                       (watchRepeated \/ (a = watchArgs /\ watchFirst # <<>>))
                /\ UNCHANGED <<watchArgs, lastCall>>
                /\ UNCHANGED notMarket

MarketNext == FetchRange

-----------------------------------------------------------------------------
(* One fetch_range call against an endpoint that may answer anything *)

RangeArgs == {Args(t, s, e) : t \in Tickers, s \in Dates, e \in Dates}

\* date cells: the dates of the window, text that is no date, month 13
DateCells ==
    {RocCell(d) : d \in Dates} \cup {<<>>, <<WindowStart[1] - RocOffset, 13, 1>>}

RECURSIVE SeqsUpTo(_, _)
\* the sequences over S of length at most n
SeqsUpTo(S, n) ==
    IF n = 0 THEN {<<>>}
    ELSE LET shorter == SeqsUpTo(S, n - 1)
         IN  shorter \cup {Append(q, x) : q \in shorter, x \in S}

OneRow == <<RocCell(<<WindowStart[1], WindowStart[2], 1>>)>>

RangeResponses(m) ==
    {ErrorResponse, [kind |-> "list", fields |-> "none", data |-> <<>>]}
    \cup {Payload(f, OneRow) : f \in {"none", "noDate", "noClose", "short"}}
    \cup {Payload("full", d) : d \in SeqsUpTo(DateCells, MaxRows)}

\* the first fetch_range call of a process, the endpoint answering anything
RangeCall ==
    /\ lastCall = <<>>
    /\ \E a \in RangeArgs :
         LET ms == month_list(a.start_d, a.end_d)
         IN  \E resp \in Answers([i \in 1..Len(ms) |-> RangeResponses(ms[i])]) :
               LET r == fetch_range(a.stock_no, a.start_d, a.end_d, cache, resp)
               IN  /\ cache' = r.cache
                   /\ requested' = requested \cup
                          {Key(a.stock_no, ms[i]) : i \in 1..Len(r.vals)}
                   /\ lastCall' = <<[args |-> a, raised |-> r.raised,
                                     rows |-> r.rows, vals |-> r.vals,
                                     months |-> r.months]>>
                   /\ UNCHANGED <<watchArgs, watchCalls, watchFirst, watchLast,
                                  watchRepeated>>
                   /\ UNCHANGED notMarket

RangeNext == RangeCall

-----------------------------------------------------------------------------
(* fetch_range called again after the endpoint failed *)

\* a fetch_range call of a process, recorded with what the endpoint would
\* answer to each of its months at that moment
RetryCall ==
    /\ Len(lastCall) < MaxRetryCalls
    /\ \E a \in MarketArgs :
         LET ms == month_list(a.start_d, a.end_d)
         IN  \E resp \in Answers([i \in 1..Len(ms) |-> MarketResponses(ms[i])]) :
               LET r == fetch_range(a.stock_no, a.start_d, a.end_d, cache, resp)
               IN  /\ cache' = r.cache
                   /\ requested' = requested \cup
                          {Key(a.stock_no, ms[i]) : i \in 1..Len(r.vals)}
                   /\ lastCall' = Append(lastCall,
                          [args |-> a, raised |-> r.raised, rows |-> r.rows,
                           vals |-> r.vals, months |-> r.months, resp |-> resp,
                           misses |-> r.misses])
                   /\ UNCHANGED <<watchArgs, watchCalls, watchFirst, watchLast,
                                  watchRepeated>>
                   /\ UNCHANGED notMarket

RetryNext == RetryCall

-----------------------------------------------------------------------------
(* Text: a sequence of one-character strings; "u3000" stands for the
   full-width space U+3000 *)

DigitChars == {"0", "1", "2", "3", "4", "5", "6", "7", "8", "9"}

\* the characters str.strip() and the regex class \s take for whitespace
SpaceChars == {" ", "u3000"}

RECURSIVE LStrip(_)
LStrip(s) ==
    IF s # <<>> /\ Head(s) \in SpaceChars THEN LStrip(Tail(s)) ELSE s

RECURSIVE RStrip(_)
RStrip(s) ==
    IF s # <<>> /\ s[Len(s)] \in SpaceChars
    THEN RStrip(SubSeq(s, 1, Len(s) - 1)) ELSE s

\* str.strip()
Strip(s) == RStrip(LStrip(s))

RECURSIVE Replace(_, _, _)
\* s.replace(old, new), old not empty: every occurrence, left to right
Replace(s, old, new) ==
    IF Len(s) < Len(old) THEN s
    ELSE IF SubSeq(s, 1, Len(old)) = old
         THEN new \o Replace(SubSeq(s, Len(old) + 1, Len(s)), old, new)
         ELSE <<Head(s)>> \o Replace(Tail(s), old, new)

LowerChar(ch) ==
    CASE ch = "T" -> "t" [] ch = "S" -> "s" [] ch = "M" -> "m" [] ch = "C" -> "c"
      [] OTHER -> ch

\* str.lower()
Lower(s) == [i \in 1..Len(s) |-> LowerChar(s[i])]

\* k in s
Contains(s, k) ==
    \E i \in 0..(Len(s) - Len(k)) : SubSeq(s, i + 1, i + Len(k)) = k

RECURSIVE Digits(_)
\* str(n) of a natural number
Digits(n) ==
    LET d == <<"0", "1", "2", "3", "4", "5", "6", "7", "8", "9">>[(n % 10) + 1]
    IN  IF n < 10 THEN <<d>> ELSE Append(Digits(n \div 10), d)

\* the length the pattern \d{4} asks for
CodeLen == 4

\* str.fullmatch(r"\d{4}")
IsCode(s) == Len(s) = CodeLen /\ \A i \in 1..Len(s) : s[i] \in DigitChars

-----------------------------------------------------------------------------
(* services/company.py: normalisation *)

\* a cell of the code column: text, or a float with an integral value v
StrCell(s) == [t |-> "str", s |-> s, v |-> 0]
FloatCell(v) == [t |-> "float", s |-> <<>>, v |-> v]

\* astype(str) of a cell
AsStr(cell) ==
    IF cell.t = "float" THEN Digits(cell.v) \o <<".", "0">> ELSE cell.s

RECURSIVE DropDuplicates(_, _)
\* drop_duplicates(subset=["code"], keep="first"), seen the codes already kept
DropDuplicates(rows, seen) ==
    IF rows = <<>> THEN <<>>
    ELSE IF Head(rows).code \in seen THEN DropDuplicates(Tail(rows), seen)
    ELSE <<Head(rows)>> \o DropDuplicates(Tail(rows), seen \cup {Head(rows).code})

\* the rows of s whose code is four digits
CodeRows(rows) == SelectSeq(rows, LAMBDA r : IsCode(r.code))

\* the code of a row the way a trailing-".0"-only clean-up would give it
TrailingOnly(s) ==
    LET t == Strip(s)
    IN  IF Len(t) >= 2 /\ SubSeq(t, Len(t) - 1, Len(t)) = <<".", "0">>
        THEN Strip(SubSeq(t, 1, Len(t) - 2)) ELSE t

\* _normalize_company_df with the ".0" artifact removed at the end of the
\* code only
normalize_trailing(raw) ==
    IF ~raw.cols THEN [raised |-> TRUE, table |-> <<>>]
    ELSE [raised |-> FALSE,
          table |-> DropDuplicates(CodeRows(
              [i \in 1..Len(raw.rows) |->
                  [code |-> TrailingOnly(AsStr(raw.rows[i].code)),
                   name |-> Strip(raw.rows[i].name)]]), {})]

\* _normalize_company_df applied to a frame: raw.cols says whether a code and
\* a name column are found, raw.rows are its rows
normalize_company_df(raw) ==
    IF ~raw.cols THEN [raised |-> TRUE, table |-> <<>>]
    ELSE [raised |-> FALSE,
          table |-> DropDuplicates(CodeRows(
              [i \in 1..Len(raw.rows) |->
                  [code |-> Strip(Replace(AsStr(raw.rows[i].code), <<".", "0">>, <<>>)),
                   name |-> Strip(raw.rows[i].name)]]), {})]

-----------------------------------------------------------------------------
(* services/company.py: the three sources and the memoised table *)

\* A source as load_company_table finds it.
\*   local    kind "missing" (no file), "unreadable" (read_json raises) or
\*            "frame"; cols: a code and a name column are found
\*   openapi  kind "error" (the request raises) or "frame", JSON or CSV
\*   isin     kind "error" (read_html raises), "nocol" (the table lacks the
\*            combined column) or "frame"; cells: the combined column
Frame(c, rows) == [kind |-> "frame", cols |-> c, rows |-> rows]
NoFrame(k) == [kind |-> k, cols |-> FALSE, rows |-> <<>>]
IsinFrame(k, cells) == [kind |-> k, cells |-> cells]

Raised == [raised |-> TRUE, table |-> <<>>]

_load_company_from_local(src) ==
    IF src.kind # "frame" THEN Raised ELSE normalize_company_df(src)

_fetch_company_from_openapi(src) ==
    IF src.kind # "frame" THEN Raised ELSE normalize_company_df(src)

\* split_code_name: re.match(r"^(\d{4})\s+(.+)$", s), else ("", s)
split_code_name(s) ==
    IF /\ Len(s) >= CodeLen + 2
       /\ IsCode(SubSeq(s, 1, CodeLen))
       /\ s[CodeLen + 1] \in SpaceChars
    THEN LET rest == LStrip(SubSeq(s, CodeLen + 1, Len(s)))
         IN  [code |-> SubSeq(s, 1, CodeLen),
              name |-> IF rest = <<>> THEN <<s[Len(s)]>> ELSE rest]
    ELSE [code |-> <<>>, name |-> s]

_fetch_company_from_isin_backup(src) ==
    IF src.kind = "error" THEN [raised |-> FALSE, table |-> <<>>]
    ELSE IF src.kind = "nocol" \/ src.cells = <<>> THEN Raised
    ELSE [raised |-> FALSE,
          table |-> DropDuplicates(CodeRows(
              [i \in 1..Len(src.cells) |-> split_code_name(src.cells[i])]), {})]

\* the chain with the remote endpoint asked before the local file
load_company_table_openapi_first(env) ==
    LET o == _fetch_company_from_openapi(env.openapi)
        l == _load_company_from_local(env.local)
        b == _fetch_company_from_isin_backup(env.isin)
    IN  IF ~o.raised
        THEN [raised |-> FALSE, table |-> o.table, attempts |-> <<"openapi">>]
        ELSE IF ~l.raised
        THEN [raised |-> FALSE, table |-> l.table,
              attempts |-> <<"openapi", "local">>]
        ELSE [raised |-> FALSE, table |-> IF b.raised THEN <<>> ELSE b.table,
              attempts |-> <<"openapi", "local", "isin">>]

\* the body of load_company_table: the sources in order, each in its own
\* try/except; attempts lists the sources it read
load_company_table(env) ==
    LET l == _load_company_from_local(env.local)
        o == _fetch_company_from_openapi(env.openapi)
        b == _fetch_company_from_isin_backup(env.isin)
    IN  IF ~l.raised
        THEN [raised |-> FALSE, table |-> l.table, attempts |-> <<"local">>]
        ELSE IF ~o.raised
        THEN [raised |-> FALSE, table |-> o.table,
              attempts |-> <<"local", "openapi">>]
        ELSE [raised |-> FALSE, table |-> IF b.raised THEN <<>> ELSE b.table,
              attempts |-> <<"local", "openapi", "isin">>]

\* load_company_table without its decorator: every call runs the chain
memo_load_company_table_uncached(c, env) ==
    LET r == load_company_table(env)
    IN  [ran |-> TRUE, run |-> r, table |-> r.table, cache |-> c]

\* @lru_cache(maxsize=1) on load_company_table: the first call that returns
\* stores the table, every later call gets the stored one
memo_load_company_table(c, env) ==
    IF c # <<>>
    THEN [ran |-> FALSE, run |-> [raised |-> FALSE, table |-> c[1], attempts |-> <<>>],
          table |-> c[1], cache |-> c]
    ELSE LET r == load_company_table(env)
         IN  [ran |-> TRUE, run |-> r, table |-> r.table,
              cache |-> IF r.raised THEN c ELSE <<r.table>>]

\* the pattern of str.contains is a regular expression: "(" alone does not
\* compile; letters, digits and spaces match themselves
BadPattern(k) == \E i \in 1..Len(k) : k[i] = "("

\* search_code that looks at the names only
search_code_names_only(keyword, t) ==
    LET k == Replace(Lower(Strip(keyword)), <<"u3000">>, <<" ">>)
    IN  IF t = <<>> THEN [raised |-> FALSE, rows |-> <<>>]
        ELSE IF BadPattern(k) THEN [raised |-> TRUE, rows |-> <<>>]
        ELSE [raised |-> FALSE,
              rows |-> SelectSeq(t, LAMBDA r : Contains(Lower(r.name), k))]

\* search_code on the loaded table t
search_code(keyword, t) ==
    LET k == Replace(Lower(Strip(keyword)), <<"u3000">>, <<" ">>)
    IN  IF t = <<>> THEN [raised |-> FALSE, rows |-> <<>>]
        ELSE IF BadPattern(k) THEN [raised |-> TRUE, rows |-> <<>>]
        ELSE [raised |-> FALSE,
              rows |-> SelectSeq(t, LAMBDA r :
                           Contains(Lower(r.name), k) \/ Contains(r.code, k))]

-----------------------------------------------------------------------------
(* The company directory as a state machine *)

CodeCells ==
    {StrCell(<<"2", "3", "3", "0">>), FloatCell(2330), StrCell(<<"a", "b", "c">>), StrCell(<<" ", "1", "1", "0", "1", " ">>),
     StrCell(<<"1", ".", "0", "2", "3", "4">>), StrCell(<<"2", "3", "3">>)}

CompanyNames == {<<"T", "S", "M", "C", " ">>, <<"f", "u", "n", "d", " ", "2", "3", "3", "0">>}

CompanyRows == {[code |-> c, name |-> n] : c \in CodeCells, n \in CompanyNames}

IsinCells == {<<"2", "3", "3", "0", " ", "T", "S", "M", "C">>, <<"2", "3", "3", "0", " ", " ", "x">>, <<"1", "1", "0", "1", " ", "f", "u", "n", "d", " ", "2", "3", "3", "0">>, <<"a", "b", "c">>}

Frames == {Frame(TRUE, rows) : rows \in SeqsUpTo(CompanyRows, MaxTableRows)}

LocalGood == Frames
LocalBad == {NoFrame("missing"), NoFrame("unreadable"), Frame(FALSE, <<>>)}
OpenGood == Frames
OpenBad == {NoFrame("error"), Frame(FALSE, <<>>)}
IsinStates ==
    {IsinFrame("error", <<>>), IsinFrame("nocol", <<>>)}
    \cup {IsinFrame("frame", cells) : cells \in SeqsUpTo(IsinCells, MaxTableRows)}

\* what a source holds that the chain does not get to
UnreadFrame == Frame(TRUE, <<[code |-> StrCell(<<"9", "9", "9", "9">>), name |-> <<"x">>]>>)
UnreadIsin == IsinFrame("frame", <<<<"9", "9", "9", "8", " ", "y">>>>)

Env(l, o, b) == [local |-> l, openapi |-> o, isin |-> b]

\* the sources at the time of a load; those behind the first good one are
\* never read and are fixed
Envs ==
    {Env(l, UnreadFrame, UnreadIsin) : l \in LocalGood}
    \cup {Env(l, o, UnreadIsin) : l \in LocalBad, o \in OpenGood}
    \cup {Env(l, o, b) : l \in LocalBad, o \in OpenBad, b \in IsinStates}

\* the sources at a later time
LaterEnvs == {Env(UnreadFrame, UnreadFrame, UnreadIsin)}

Keywords == {<<"2", "3", "3", "0">>, <<"1", "1", "0", "1">>, <<"1", "2", "3", "4">>, <<" ", "T", "s", "m", "c", "u3000">>, <<"(">>}

CompanyInit ==
    /\ companyCache = <<>>
    /\ chainRuns = 0
    /\ companyCalls = 0
    /\ firstTable = <<>>
    /\ lastLoad = <<>>
    /\ observed = <<>>
    /\ lastSearch = <<>>

\* what a call that went through load_company_table leaves behind
Loaded(m, env) ==
    /\ chainRuns + (IF m.ran THEN 1 ELSE 0) <= MaxChainRuns
    /\ companyCalls < MaxCompanyCalls
    /\ companyCalls' = companyCalls + 1
    /\ companyCache' = m.cache
    /\ chainRuns' = chainRuns + (IF m.ran THEN 1 ELSE 0)
    /\ firstTable' = IF firstTable = <<>> THEN <<m.table>> ELSE firstTable
    /\ lastLoad' = IF m.ran THEN <<[env |-> env, run |-> m.run]>> ELSE lastLoad
    /\ observed' = <<m.table>>

\* a caller asks for the table
LoadTable ==
    \E env \in (IF companyCache = <<>> THEN Envs ELSE LaterEnvs) :
        /\ Loaded(memo_load_company_table(companyCache, env), env)
        /\ UNCHANGED lastSearch
        /\ UNCHANGED notCompany

\* a caller searches for a keyword
Search ==
    \E k \in Keywords :
      \E env \in (IF companyCache = <<>> THEN Envs ELSE LaterEnvs) :
        LET m == memo_load_company_table(companyCache, env)
            r == search_code(k, m.table)
        IN  /\ Loaded(m, env)
            /\ lastSearch' = <<[keyword |-> k, table |-> m.table,
                                raised |-> r.raised, rows |-> r.rows]>>
            /\ UNCHANGED notCompany

CompanyNext == LoadTable \/ Search

-----------------------------------------------------------------------------
(* streamlist_app.py: calculate_rsi *)

\* A float64 of a pandas Series: not-a-number, plus infinity, or the exact
\* fraction n/d. Rolling means are taken as exact.
NaN == [k |-> "nan", n |-> 0, d |-> 1]
Inf == [k |-> "inf", n |-> 0, d |-> 1]
Num(n, d) == [k |-> "num", n |-> n, d |-> d]

\* the close column's diff() at row i
Diff(closes, i) ==
    IF i = 1 \/ closes[i].k # "num" \/ closes[i - 1].k # "num" THEN NaN
    ELSE Num(closes[i].n - closes[i - 1].n, 1)

\* delta.where(delta > 0, 0) at row i: a comparison with not-a-number is false
GainAt(closes, i) ==
    LET dl == Diff(closes, i) IN IF dl.k = "num" /\ dl.n > 0 THEN dl.n ELSE 0

\* -delta.where(delta < 0, 0) at row i
LossAt(closes, i) ==
    LET dl == Diff(closes, i) IN IF dl.k = "num" /\ dl.n < 0 THEN 0 - dl.n ELSE 0

RECURSIVE GainSum(_, _, _)
\* the sum of the gains of rows lo..hi
GainSum(closes, lo, hi) ==
    IF lo > hi THEN 0 ELSE GainAt(closes, lo) + GainSum(closes, lo + 1, hi)

RECURSIVE LossSum(_, _, _)
\* the sum of the losses of rows lo..hi
LossSum(closes, lo, hi) ==
    IF lo > hi THEN 0 ELSE LossAt(closes, lo) + LossSum(closes, lo + 1, hi)

\* rolling(window=period).mean() at row i, given the sum of its window
RollingMean(sum, i, period) ==
    IF i < period THEN NaN ELSE Num(sum, period)

\* gain / loss of two float64 Series elements, neither negative: a division
\* by zero gives infinity or not-a-number, it does not raise
float_div(x, y) ==
    IF x.k # "num" \/ y.k # "num" THEN NaN
    ELSE IF y.n = 0 THEN (IF x.n = 0 THEN NaN ELSE Inf)
    ELSE Num(x.n * y.d, x.d * y.n)

\* 100 - (100 / (1 + rs))
RsiOf(rs) ==
    CASE rs.k = "nan" -> NaN
      [] rs.k = "inf" -> Num(100, 1)
      [] OTHER -> Num(100 * rs.n, rs.n + rs.d)

\* calculate_rsi(df, period): the RSI column
calculate_rsi(closes, period) ==
    [i \in 1..Len(closes) |->
        LET lo == i - period + 1
            gain == RollingMean(GainSum(closes, lo, i), i, period)
            loss == RollingMean(LossSum(closes, lo, i), i, period)
        IN  RsiOf(float_div(gain, loss))]

\* the closing prices to_num gives: a price or not-a-number
Prices == {NaN} \cup {Num(p, 1) : p \in 1..MaxPrice}

\* calculate_rsi's default period
DefaultPeriod == 14

RsiInit ==
    /\ rsiCloses \in SeqsUpTo(Prices, MaxCloses)
    /\ rsiPeriod \in 1..MaxPeriod
    /\ rsiOut = <<>>

RsiIdle ==
    /\ rsiCloses = <<>>
    /\ rsiPeriod = DefaultPeriod
    /\ rsiOut = <<>>

\* the indicator is computed for the frame
CalculateRsi ==
    /\ rsiOut = <<>>
    /\ rsiOut' = <<calculate_rsi(rsiCloses, rsiPeriod)>>
    /\ UNCHANGED <<rsiCloses, rsiPeriod>>
    /\ UNCHANGED notRsi

RsiNext == CalculateRsi

-----------------------------------------------------------------------------
(* services/news.py: fetch_monthly_top_news *)

\* A time is <<year, month, day, hour>>; a timestamp counts hours from Epoch.
Epoch == <<2023, 12, 1>>
HoursPerDay == 24

\* a local zone: hours east of UTC, and the daylight-saving hour in force
Zones == {[utcoffset |-> 8, dst |-> 0], [utcoffset |-> 10, dst |-> 1]}

RECURSIVE DaysFrom(_, _)
\* the days from the first-of-month date cur to the date d
DaysFrom(cur, d) ==
    IF cur[1] = d[1] /\ cur[2] = d[2] THEN d[3] - 1
    ELSE DaysInMonth(cur[1], cur[2]) + DaysFrom(AddMonth(cur), d)

RECURSIVE DateAfter(_, _)
\* the date n days after the first-of-month date cur
DateAfter(cur, n) ==
    IF n < DaysInMonth(cur[1], cur[2]) THEN <<cur[1], cur[2], n + 1>>
    ELSE DateAfter(AddMonth(cur), n - DaysInMonth(cur[1], cur[2]))

\* time.mktime(t): t has tm_isdst = 0, so it is read as local standard time
mktime(t, zone) ==
    DaysFrom(Epoch, <<t[1], t[2], t[3]>>) * HoursPerDay + t[4] - zone.utcoffset

\* datetime.fromtimestamp(ts): the local wall-clock time of the instant
fromtimestamp(ts, zone) ==
    LET local == ts + zone.utcoffset + zone.dst
        d == DateAfter(Epoch, local \div HoursPerDay)
    IN  <<d[1], d[2], d[3], local % HoursPerDay>>

\* pub_dt.date()
DateOf(t) == <<t[1], t[2], t[3]>>

\* a < b for two datetimes
TimeLT(a, b) ==
    \/ DateLT(DateOf(a), DateOf(b))
    \/ DateOf(a) = DateOf(b) /\ a[4] < b[4]

\* format(n, "0wd")
ZeroPad(n, w) ==
    LET ds == Digits(n)
    IN  IF Len(ds) >= w THEN ds ELSE [i \in 1..(w - Len(ds)) |-> "0"] \o ds

\* _month_key(d)
_month_key(d) == ZeroPad(d[1], 4) \o <<"-">> \o ZeroPad(d[2], 2)

\* ord(ch) of the characters of a month key
Ord(ch) ==
    IF ch = "-" THEN 45
    ELSE 48 + (CHOOSE n \in 0..9 : Digits(n) = <<ch>>)

RECURSIVE StrLT(_, _)
\* a < b for two str
StrLT(a, b) ==
    IF a = <<>> THEN b # <<>>
    ELSE IF b = <<>> THEN FALSE
    ELSE IF a[1] = b[1] THEN StrLT(Tail(a), Tail(b))
    ELSE Ord(a[1]) < Ord(b[1])

RECURSIVE SortedKeys(_)
\* sorted(by_month.keys())
SortedKeys(ks) ==
    IF ks = <<>> THEN <<>>
    ELSE LET rest == SortedKeys(SubSeq(ks, 1, Len(ks) - 1))
             x == ks[Len(ks)]
             n == Cardinality({i \in 1..Len(rest) : ~StrLT(x, rest[i])})
         IN  SubSeq(rest, 1, n) \o <<x>> \o SubSeq(rest, n + 1, Len(rest))

RECURSIVE NewestFirst(_)
\* sorted(items, key=published, reverse=True): equal items keep their order
NewestFirst(its) ==
    IF its = <<>> THEN <<>>
    ELSE LET rest == NewestFirst(SubSeq(its, 1, Len(its) - 1))
             x == its[Len(its)]
             n == Cardinality({i \in 1..Len(rest) :
                                  ~TimeLT(rest[i].published, x.published)})
         IN  SubSeq(rest, 1, n) \o <<x>> \o SubSeq(rest, n + 1, Len(rest))

\* s[:n]
Slice(s, n) ==
    IF n >= 0 THEN SubSeq(s, 1, Min(n, Len(s)))
    ELSE SubSeq(s, 1, IF Len(s) + n > 0 THEN Len(s) + n ELSE 0)

\* the list of one month, oldest first and cut to per_month
TopOfMonth_oldest_first(its, per_month) ==
    LET newest == NewestFirst(its)
    IN  Slice([i \in 1..Len(newest) |-> newest[Len(newest) + 1 - i]], per_month)

\* sorted(by_month[mk], key=published, reverse=True)[:per_month]
TopOfMonth(its, per_month) == Slice(NewestFirst(its), per_month)

RECURSIVE FirstSeen(_)
\* the keys of by_month, in the order they were first inserted
FirstSeen(its) ==
    IF its = <<>> THEN <<>>
    ELSE LET rest == FirstSeen(SubSeq(its, 1, Len(its) - 1))
             mk == its[Len(its)].month
         IN  IF \E i \in 1..Len(rest) : rest[i] = mk THEN rest
             ELSE Append(rest, mk)

\* an entry whose published_parsed is missing or None
NoStamp == <<>>

\* fetch_monthly_top_news(keyword, start_d, end_d, per_month) on a feed whose
\* i-th entry has the title i: the mapping as the sequence of its pairs
fetch_monthly_top_news(entries, start_d, end_d, per_month, zone) ==
    LET pub_dt(i) == fromtimestamp(mktime(entries[i], zone), zone)
        kept == SelectSeq([i \in 1..Len(entries) |-> i],
                    LAMBDA i : /\ entries[i] # NoStamp
                               /\ DateLE(start_d, DateOf(pub_dt(i)))
                               /\ DateLE(DateOf(pub_dt(i)), end_d))
        items == [k \in 1..Len(kept) |->
                     [title |-> kept[k],
                      published |-> pub_dt(kept[k]),
                      month |-> _month_key(DateOf(pub_dt(kept[k])))]]
        month_keys == SortedKeys(FirstSeen(items))
    IN  [k \in 1..Len(month_keys) |->
            [month |-> month_keys[k],
             items |-> TopOfMonth(SelectSeq(items,
                           LAMBDA it : it.month = month_keys[k]), per_month)]]

\* the publish times the feed reports
NewsStamps ==
    {<<2023, 12, 31, 23>>, <<2024, 1, 1, 0>>, <<2024, 1, 31, 0>>, <<2024, 1, 31, 23>>}

\* the date ranges callers pass
NewsRanges ==
    {<<<<2023, 12, 1>>, <<2024, 1, 31>>>>, <<<<2024, 1, 1>>, <<2024, 1, 31>>>>,
     <<<<2023, 12, 31>>, <<2024, 1, 1>>>>, <<<<2024, 1, 31>>, <<2024, 1, 1>>>>}

NewsInit ==
    /\ newsFeed \in SeqsUpTo(NewsStamps \cup {NoStamp}, MaxEntries)
    /\ newsArgs \in {[start_d |-> r[1], end_d |-> r[2], per_month |-> n] :
                        r \in NewsRanges, n \in 0..MaxPerMonth}
    /\ newsZone \in Zones
    /\ newsOut = <<>>

NewsIdle ==
    /\ newsFeed = <<>>
    /\ newsArgs = [start_d |-> Epoch, end_d |-> Epoch, per_month |-> 0]
    /\ newsZone = [utcoffset |-> 8, dst |-> 0]
    /\ newsOut = <<>>

\* the news of the range are fetched
FetchNews ==
    /\ newsOut = <<>>
    /\ newsOut' = <<fetch_monthly_top_news(newsFeed, newsArgs.start_d,
                        newsArgs.end_d, newsArgs.per_month, newsZone)>>
    /\ UNCHANGED <<newsFeed, newsArgs, newsZone>>
    /\ UNCHANGED notNews

NewsNext == FetchNews

-----------------------------------------------------------------------------
(* streamlist_app.py: the query pipeline, one action per block of the script *)

\* the tables load_company_table can give
AppTables ==
    {<<>>,
     <<[code |-> <<"2", "3", "3", "0">>, name |-> <<"T", "S", "M", "C">>]>>,
     <<[code |-> <<"2", "3", "3", "0">>, name |-> <<"T", "S", "M", "C">>],
       [code |-> <<"1", "1", "0", "1">>, name |-> <<"f", "u", "n", "d", " ", "2", "3", "3", "0">>]>>}

\* the period of the form
AppStart == <<2023, 12, 1>>
AppEnd == <<2023, 12, 1>>

\* what the endpoint answers for the month of the period
AppResponses ==
    {ErrorResponse, [kind |-> "list", fields |-> "none", data |-> <<>>],
     Payload("full", <<RocCell(<<2023, 12, 1>>)>>),
     Payload("full", <<RocCell(<<2023, 12, 2>>)>>)}

AppInit ==
    /\ appPc = "form"
    /\ appRuns = 0
    /\ appTable \in AppTables
    /\ appCache = <<>>
    /\ appQ \in Keywords
    /\ appMatches = <<>>
    /\ appStock = <<>>
    /\ appDf = <<>>
    /\ appNewsRaised = FALSE
    /\ appLog = <<>>

AppIdle ==
    /\ appPc = "form"
    /\ appRuns = 0
    /\ appTable = <<>>
    /\ appCache = <<>>
    /\ appQ = <<>>
    /\ appMatches = <<>>
    /\ appStock = <<>>
    /\ appDf = <<>>
    /\ appNewsRaised = FALSE
    /\ appLog = <<>>

\* a new run of the script starts with an empty page
StartRun ==
    /\ appRuns < MaxRuns
    /\ appRuns' = appRuns + 1
    /\ appPc' = "search"
    /\ appMatches' = <<>>
    /\ appStock' = <<>>
    /\ appDf' = <<>>
    /\ appNewsRaised' = FALSE
    /\ appLog' = <<>>

\* the button is pressed: session_state["go"] is set and the script goes on
Submit ==
    /\ appPc = "form"
    /\ StartRun
    /\ UNCHANGED <<appTable, appCache, appQ>>
    /\ UNCHANGED notApp

\* the user changes the form after a run: the script runs again, "go" still set
Rerun ==
    /\ appPc \in {"done", "stopped", "crashed"}
    /\ StartRun
    /\ appQ' \in Keywords
    /\ UNCHANGED <<appTable, appCache>>
    /\ UNCHANGED notApp

\* search_code(q), the not-found message, the choice among several matches
SearchStep ==
    /\ appPc = "search"
    /\ LET r == search_code(appQ, appTable)
       IN  IF r.raised
           THEN /\ appPc' = "crashed"
                /\ UNCHANGED <<appMatches, appStock, appLog>>
           ELSE /\ appMatches' = <<r.rows>>
                /\ IF r.rows = <<>>
                   THEN /\ appLog' = Append(appLog, "notfound")
                        /\ appPc' = "stopped"
                        /\ appStock' = appStock
                   ELSE /\ \E pick \in 1..Len(r.rows) :
                              /\ Len(r.rows) = 1 => pick = 1
                              /\ appStock' = <<r.rows[pick]>>
                        /\ appLog' = appLog \o
                              (IF Len(r.rows) = 1 THEN <<>> ELSE <<"choose">>)
                              \o <<"subheader">>
                        /\ appPc' = "fetch"
    /\ UNCHANGED <<appRuns, appTable, appCache, appQ, appDf, appNewsRaised>>
    /\ UNCHANGED notApp

\* fetch_range(stock_no, start_d, end_d) and the no-data message; volNaN says
\* that the last row's volume is not-a-number
FetchStep ==
    /\ appPc = "fetch"
    /\ \E resp \in AppResponses, nan \in BOOLEAN :
         LET r == fetch_range(appStock[1].code, AppStart, AppEnd, appCache, <<resp>>)
         IN  /\ appCache' = r.cache
             /\ IF r.raised
                THEN /\ appPc' = "crashed"
                     /\ appLog' = Append(appLog, "fetch_range")
                     /\ appDf' = appDf
                ELSE IF r.rows = <<>>
                THEN /\ appPc' = "stopped"
                     /\ appLog' = appLog \o <<"fetch_range", "nodata">>
                     /\ appDf' = <<[rows |-> <<>>, volNaN |-> FALSE]>>
                ELSE /\ appPc' = "indicators"
                     /\ appLog' = Append(appLog, "fetch_range")
                     /\ appDf' = <<[rows |-> r.rows, volNaN |-> nan]>>
    /\ UNCHANGED <<appRuns, appTable, appQ, appMatches, appStock, appNewsRaised>>
    /\ UNCHANGED notApp

\* the five calculate_ calls
IndicatorsStep ==
    /\ appPc = "indicators"
    /\ appPc' = "metrics"
    /\ appLog' = Append(appLog, "indicators")
    /\ UNCHANGED <<appRuns, appTable, appCache, appQ, appMatches, appStock, appDf,
                   appNewsRaised>>
    /\ UNCHANGED notApp

\* the five metrics of the last row: int() of a not-a-number volume raises
MetricsStep ==
    /\ appPc = "metrics"
    /\ IF appDf[1].volNaN
       THEN appPc' = "crashed" /\ appLog' = appLog
       ELSE appPc' = "charts" /\ appLog' = Append(appLog, "metrics")
    /\ UNCHANGED <<appRuns, appTable, appCache, appQ, appMatches, appStock, appDf,
                   appNewsRaised>>
    /\ UNCHANGED notApp

\* the charts and the summary
ChartsStep ==
    /\ appPc = "charts"
    /\ appPc' = "table"
    /\ appLog' = Append(appLog, "charts")
    /\ UNCHANGED <<appRuns, appTable, appCache, appQ, appMatches, appStock, appDf,
                   appNewsRaised>>
    /\ UNCHANGED notApp

\* the table of the raw columns
TableStep ==
    /\ appPc = "table"
    /\ appPc' = "news"
    /\ appLog' = Append(appLog, "table")
    /\ UNCHANGED <<appRuns, appTable, appCache, appQ, appMatches, appStock, appDf,
                   appNewsRaised>>
    /\ UNCHANGED notApp

\* the news block without its try/except
NewsStep_unguarded ==
    /\ appPc = "news"
    /\ \E raises \in BOOLEAN :
         /\ appNewsRaised' = raises
         /\ IF raises
            THEN appPc' = "crashed" /\ appLog' = Append(appLog, "news_fetch")
            ELSE appPc' = "done" /\ appLog' = appLog \o <<"news_fetch", "news">>
    /\ UNCHANGED <<appRuns, appTable, appCache, appQ, appMatches, appStock, appDf>>
    /\ UNCHANGED notApp

\* the news block: fetch_monthly_top_news and the rendering of its items
\* inside try, the warning in except Exception
NewsStep ==
    /\ appPc = "news"
    /\ \E raises \in BOOLEAN :
         /\ appNewsRaised' = raises
         /\ appLog' = appLog \o <<"news_fetch", IF raises THEN "warning" ELSE "news">>
    /\ appPc' = "done"
    /\ UNCHANGED <<appRuns, appTable, appCache, appQ, appMatches, appStock, appDf>>
    /\ UNCHANGED notApp

AppNext ==
    \/ Submit
    \/ Rerun
    \/ SearchStep
    \/ FetchStep
    \/ IndicatorsStep
    \/ MetricsStep
    \/ ChartsStep
    \/ TableStep
    \/ NewsStep

-----------------------------------------------------------------------------
(* services/market.py: month_list at the ends of the calendar *)

\* datetime.MAXYEAR: date(y, m, d) raises for a later year
MaxYear == 9999

RECURSIVE MonthWalkRaises(_, _)
\* the while loop of month_list from cur on raises: cur += relativedelta(
\* months=1) has no date to give after December of MaxYear
MonthWalkRaises(cur, last) ==
    /\ DateLE(cur, last)
    /\ \/ cur[1] = MaxYear /\ cur[2] = 12
       \/ MonthWalkRaises(AddMonth(cur), last)

\* month_list(start_d, end_d): the markers, or the increment raising
month_list_outcome(start_d, end_d) ==
    LET cur == <<start_d[1], start_d[2], 1>>
        last == <<end_d[1], end_d[2], 1>>
    IN  IF MonthWalkRaises(cur, last)
        THEN [raised |-> TRUE, months |-> <<>>]
        ELSE [raised |-> FALSE, months |-> month_list(start_d, end_d)]

\* the dates callers pass: the 1st and the 28th day of some months
MonthDates ==
    {<<y, m, d>> : y \in {2023, 2024, MaxYear}, m \in {1, 2, 11, 12}, d \in {1, 28}}

\* the ranges callers pass: none runs from this century to the last one
MonthRanges ==
    {r \in {[start_d |-> a, end_d |-> b] : a \in MonthDates, b \in MonthDates} :
        r.end_d[1] = MaxYear => r.start_d[1] = MaxYear}

MonthsInit ==
    /\ monthArgs \in MonthRanges
    /\ monthOut = <<>>

MonthsIdle ==
    /\ monthArgs = [start_d |-> AppStart, end_d |-> AppStart]
    /\ monthOut = <<>>

\* month_list is called on the range; fetch_range on it when the range has
\* no month, in a process that has fetched nothing yet
CallMonthList ==
    /\ monthOut = <<>>
    /\ LET ml == month_list_outcome(monthArgs.start_d, monthArgs.end_d)
           fr == IF ~ml.raised /\ ml.months = <<>>
                 THEN <<fetch_range("2330", monthArgs.start_d, monthArgs.end_d,
                                    <<>>, <<>>)>>
                 ELSE <<>>
       IN  monthOut' = <<[raised |-> ml.raised, months |-> ml.months,
                          range |-> fr]>>
    /\ UNCHANGED monthArgs
    /\ UNCHANGED notMonths

MonthsNext == CallMonthList

-----------------------------------------------------------------------------
(* Specifications: one per component, the other components at rest *)

InitMarket == MarketInit /\ CompanyInit /\ RsiIdle /\ NewsIdle /\ AppIdle /\ MonthsIdle
InitRange == MarketIdle /\ CompanyInit /\ RsiIdle /\ NewsIdle /\ AppIdle /\ MonthsIdle
InitCompany == MarketIdle /\ CompanyInit /\ RsiIdle /\ NewsIdle /\ AppIdle /\ MonthsIdle
InitRsi == MarketIdle /\ CompanyInit /\ RsiInit /\ NewsIdle /\ AppIdle /\ MonthsIdle
InitNews == MarketIdle /\ CompanyInit /\ RsiIdle /\ NewsInit /\ AppIdle /\ MonthsIdle
InitRetry == MarketIdle /\ CompanyInit /\ RsiIdle /\ NewsIdle /\ AppIdle /\ MonthsIdle
InitMonths == MarketIdle /\ CompanyInit /\ RsiIdle /\ NewsIdle /\ AppIdle /\ MonthsInit
InitApp == MarketIdle /\ CompanyInit /\ RsiIdle /\ NewsIdle /\ AppInit /\ MonthsIdle

\* the price fetcher and its cache, the endpoint up or down
SpecMarket == InitMarket /\ [][MarketNext]_vars

\* one price fetch, the endpoint answering anything
SpecRange == InitRange /\ [][RangeNext]_vars

\* the company directory
SpecCompany == InitCompany /\ [][CompanyNext]_vars

\* calculate_rsi on one frame
SpecRsi == InitRsi /\ [][RsiNext]_vars

\* fetch_monthly_top_news on one feed
SpecNews == InitNews /\ [][NewsNext]_vars

\* the dashboard script
SpecApp == InitApp /\ [][AppNext]_vars

\* fetch_range calls while the endpoint goes down and comes back
SpecRetry == InitRetry /\ [][RetryNext]_vars

\* month_list on one range
SpecMonths == InitMonths /\ [][MonthsNext]_vars

-----------------------------------------------------------------------------
(* Claims about the price fetcher *)

SameData == watchFirst # <<>> => watchLast = watchFirst

\* C1 as stated: whatever calls were made, the watched (ticker, marker) pair
\* has been requested from the network at most once, and a call repeating
\* the watched arguments returns what the first such call returned.
C1_OnceAndIdempotent == watchCalls <= 1 /\ SameData

\* C1 amended: the same, as long as at most CacheMaxSize (4096 in the program)
\* distinct (ticker, marker) pairs have been requested, so that the bounded
\* LRU cache has evicted nothing.
C1_OnceAndIdempotentWithinCapacity ==
    Cardinality(requested) <= CacheMaxSize => C1_OnceAndIdempotent

\* a repeated call that returned the cached row of a month fetched once
C1_Witness ==
    /\ Cardinality(requested) <= CacheMaxSize
    /\ watchRepeated
    /\ watchCalls = 1
    /\ watchLast # <<>> /\ watchLast[1].rows # <<>>

\* the rows of a month whose payload parses, no row for one that does not
SafeRows(js) ==
    LET df == month_json_to_df(js) IN IF df.raised THEN <<>> ELSE df.rows

RECURSIVE ConcatRows(_)
ConcatRows(vals) ==
    IF vals = <<>> THEN <<>> ELSE SafeRows(Head(vals)) \o ConcatRows(Tail(vals))

\* C2 as stated: fetch_range never raises; a month that fails to download or
\* to parse counts as empty, every month of the range is read, and the rows
\* of the other months are returned.
C2_NeverRaises ==
    \A i \in 1..Len(lastCall) :
        LET c == lastCall[i]
        IN  /\ ~c.raised
            /\ Len(c.vals) = Len(c.months)
            /\ c.rows = sort_values(clip_range(ConcatRows(c.vals),
                                               c.args.start_d, c.args.end_d))

\* C3 as stated: the dates fetch_range returns lie in [start_d, end_d] and
\* are strictly ascending, so none occurs twice, whatever the endpoint sent.
C3_InRangeStrictlyAscending ==
    \A i \in 1..Len(lastCall) :
        LET c == lastCall[i]
        IN  ~c.raised =>
              /\ \A j \in 1..Len(c.rows) :
                    DateLE(c.args.start_d, c.rows[j]) /\ DateLE(c.rows[j], c.args.end_d)
              /\ \A j \in 1..(Len(c.rows) - 1) : DateLT(c.rows[j], c.rows[j + 1])

-----------------------------------------------------------------------------
(* Claims about the company directory *)

SourceOrder == <<"local", "openapi", "isin">>

\* what the i-th source of the chain does on the sources env
SourceResult(i, env) ==
    CASE i = 1 -> _load_company_from_local(env.local)
      [] i = 2 -> _fetch_company_from_openapi(env.openapi)
      [] OTHER -> _fetch_company_from_isin_backup(env.isin)

\* C4: a run of load_company_table does not raise; it reads the local file,
\* then the open-data endpoint, then the HTML table, each only after all
\* sources before it failed, returns the table of the first source that
\* succeeds and the empty table when all three fail.
C4_FallbackChain ==
    \A j \in 1..Len(lastLoad) :
        LET run == lastLoad[j].run
            env == lastLoad[j].env
            n == Len(run.attempts)
        IN  /\ ~run.raised
            /\ n \in 1..Len(SourceOrder)
            /\ run.attempts = SubSeq(SourceOrder, 1, n)
            /\ \A i \in 1..(n - 1) : SourceResult(i, env).raised
            /\ IF SourceResult(n, env).raised
               THEN n = Len(SourceOrder) /\ run.table = <<>>
               ELSE run.table = SourceResult(n, env).table

\* the third source supplied a non-empty table after the first two failed
C4_Witness ==
    /\ lastLoad # <<>>
    /\ Len(lastLoad[1].run.attempts) = Len(SourceOrder)
    /\ lastLoad[1].run.table # <<>>

\* the latest search was for a code of the loaded table
SearchedCode ==
    /\ lastSearch # <<>>
    /\ \E i \in 1..Len(lastSearch[1].table) :
          lastSearch[1].table[i].code = lastSearch[1].keyword

\* C5 as stated: the search for a code of the table returns the one record
\* with that code and nothing else, whatever the other records are named.
C5_ExactlyThatRecord ==
    SearchedCode =>
        LET q == lastSearch[1]
        IN  /\ ~q.raised
            /\ Len(q.rows) = 1
            /\ q.rows[1].code = q.keyword

\* C5 amended: the search for a code c of the table returns, in table
\* order, the record with code c and exactly those other records whose
\* name contains c; it returns that one record alone when no other name
\* contains c.
C5_RecordAndNamesakes ==
    SearchedCode =>
        LET q == lastSearch[1]
            hit(r) == r.code = q.keyword \/ Contains(Lower(r.name), q.keyword)
        IN  /\ ~q.raised
            /\ Cardinality({i \in 1..Len(q.rows) : q.rows[i].code = q.keyword}) = 1
            /\ \A i \in 1..Len(q.rows) : hit(q.rows[i])
            /\ \A i \in 1..Len(q.table) :
                  hit(q.table[i]) => \E j \in 1..Len(q.rows) : q.rows[j] = q.table[i]
            /\ \A i, j \in 1..Len(q.rows) :
                  i < j => \E a, b \in 1..Len(q.table) :
                             a < b /\ q.table[a] = q.rows[i] /\ q.table[b] = q.rows[j]

\* a code was searched in a table of two records and one record came back
C5_Witness ==
    /\ SearchedCode
    /\ Len(lastSearch[1].table) = 2
    /\ Len(lastSearch[1].rows) = 1

AllCodes(t) == \A i \in 1..Len(t) : IsCode(t[i].code)
UniqueCodes(t) == \A i, j \in 1..Len(t) : t[i].code = t[j].code => i = j

\* C6 as stated: the table a frame normalises to is the frame's rows with
\* the code's trailing ".0" and surrounding whitespace removed, the
\* four-digit codes kept, the first row of each code kept; its codes are four
\* digits and pairwise different.
C6_TrailingZeroOnly ==
    \A j \in 1..Len(lastLoad) :
        LET run == lastLoad[j].run
            env == lastLoad[j].env
            n == Len(run.attempts)
            src == IF n = 1 THEN env.local ELSE env.openapi
        IN  (n <= 2 /\ ~SourceResult(n, env).raised) =>
              /\ run.table = normalize_trailing(src).table
              /\ AllCodes(run.table)
              /\ UniqueCodes(run.table)

\* C10: the source chain has run at most once, every call got the table the
\* first call got (the empty table of a total failure included), and the
\* cached table is still that table after any search.
C10_LoadedOnce ==
    /\ chainRuns <= 1
    /\ observed # <<>> => observed = firstTable
    /\ companyCache # <<>> => companyCache = firstTable
    /\ lastSearch # <<>> => lastSearch[1].table = firstTable[1]

\* after a total failure a search and one more call got the empty table
C10_Witness ==
    /\ chainRuns = 1
    /\ companyCalls >= 2
    /\ lastSearch # <<>>
    /\ Len(lastLoad[1].run.attempts) = Len(SourceOrder)
    /\ SourceResult(Len(SourceOrder), lastLoad[1].env).raised
    /\ observed = <<<<>>>>

-----------------------------------------------------------------------------
(* Claims about the indicators *)

\* row i has a full window in which no close is below the close before it
NoLossWindow(i) ==
    /\ i >= rsiPeriod
    /\ \A j \in (i - rsiPeriod + 1)..i :
          j > 1 => ~(/\ rsiCloses[j].k = "num" /\ rsiCloses[j - 1].k = "num"
                    /\ rsiCloses[j].n < rsiCloses[j - 1].n)

\* some close in the window of row i is above the close before it
SomeGain(i) ==
    \E j \in (i - rsiPeriod + 1)..i :
        /\ j > 1 /\ rsiCloses[j].k = "num" /\ rsiCloses[j - 1].k = "num"
        /\ rsiCloses[j].n > rsiCloses[j - 1].n

\* C7: the RSI of every row whose window has no loss is not-a-number, with
\* or without a gain in the window (the division of the two averages never
\* raises: it is a division of float64 columns).
C7_NanWhenNoLoss ==
    \A c \in 1..Len(rsiOut) :
        \A i \in 1..Len(rsiCloses) : NoLossWindow(i) => rsiOut[c][i] = NaN

\* what calculate_rsi gives for such a row: not-a-number when the window has
\* no gain either, and 100 when it has one
RsiSaturates ==
    \A c \in 1..Len(rsiOut) :
        \A i \in 1..Len(rsiCloses) :
            NoLossWindow(i) =>
                rsiOut[c][i] = IF SomeGain(i) THEN Num(100, 1) ELSE NaN

-----------------------------------------------------------------------------
(* Claims about the news timeline *)

\* the publication time of the i-th entry, as its item reports it
Published(i) == fromtimestamp(mktime(newsFeed[i], newsZone), newsZone)

\* the months a key can name
YearMonths == {<<2023, 11, 1>>, <<2023, 12, 1>>, <<2024, 1, 1>>, <<2024, 2, 1>>, <<2024, 3, 1>>}

MonthOfKey(mk) == CHOOSE ym \in YearMonths : _month_key(ym) = mk

\* the entries with a timestamp published in month ym and within the range
InRangeOf(ym) ==
    {i \in 1..Len(newsFeed) :
        /\ newsFeed[i] # NoStamp
        /\ DateLE(newsArgs.start_d, DateOf(Published(i)))
        /\ DateLE(DateOf(Published(i)), newsArgs.end_d)
        /\ Published(i)[1] = ym[1] /\ Published(i)[2] = ym[2]}

-----------------------------------------------------------------------------
(* Claims about the query pipeline *)

Shown(x) == \E i \in 1..Len(appLog) : appLog[i] = x

\* x was put on the page before position w
ShownBefore(x, w) == \E i \in 1..(w - 1) : appLog[i] = x

\* C8: in every run, a search without a match shows "not found" and starts
\* neither the price fetch nor the news fetch; an empty price series shows
\* "no data" and no indicator, chart or news step runs; a news fetch that
\* raises shows a warning after the metrics, the charts and the table, and
\* the run ends normally.
C8_PipelineMessages ==
    /\ (appMatches # <<>> /\ appMatches[1] = <<>>) =>
          /\ Shown("notfound")
          /\ ~Shown("fetch_range") /\ ~Shown("news_fetch")
          /\ appPc = "stopped"
    /\ (appDf # <<>> /\ appDf[1].rows = <<>>) =>
          /\ Shown("nodata")
          /\ ~Shown("indicators") /\ ~Shown("metrics") /\ ~Shown("charts")
          /\ ~Shown("news_fetch")
          /\ appPc = "stopped"
    /\ appNewsRaised =>
          /\ appPc = "done"
          /\ \E w \in 1..Len(appLog) :
                /\ appLog[w] = "warning"
                /\ ShownBefore("metrics", w)
                /\ ShownBefore("charts", w)
                /\ ShownBefore("table", w)

\* a second run whose news fetch raised, after the user chose among matches
C8_Witness ==
    /\ appNewsRaised
    /\ appRuns = 2
    /\ Shown("choose")
    /\ Shown("warning")

-----------------------------------------------------------------------------
(* Claims about failed fetches and the month partition *)

\* the request for the i-th month of call j failed
FailedAt(j, i) ==
    /\ Key(lastCall[j].args.stock_no, lastCall[j].months[i]) \in
          {lastCall[j].misses[n] : n \in 1..Len(lastCall[j].misses)}
    /\ lastCall[j].resp[i] = ErrorResponse

\* the rows the endpoint's answer to the i-th month of call k holds
AnsweredRows(k, i) ==
    IF lastCall[k].resp[i].kind = "dict"
    THEN month_json_to_df(lastCall[k].resp[i]).rows ELSE <<>>

\* C11: when the request for a (ticker, month) failed in one call, a later
\* fetch_range over that month of that ticker, made while the endpoint
\* answers, returns the rows of that answer.
C11_FailureForThatCallOnly ==
    \A j, k \in 1..Len(lastCall) :
        j < k =>
            \A i \in 1..Len(lastCall[j].months), n \in 1..Len(lastCall[k].months) :
                (/\ lastCall[j].args.stock_no = lastCall[k].args.stock_no
                 /\ lastCall[j].months[i] = lastCall[k].months[n]
                 /\ FailedAt(j, i)
                 /\ lastCall[k].resp[n] # ErrorResponse)
                => \A x \in 1..Len(AnsweredRows(k, n)) :
                       \E y \in 1..Len(lastCall[k].rows) :
                           lastCall[k].rows[y] = AnsweredRows(k, n)[x]

\* the number of the month of a date, counted from year 0
MonthIndex(d) == d[1] * 12 + (d[2] - 1)

\* the markers of the months numbered lo..hi, in order
MarkersOf(lo, hi) ==
    [i \in 1..(hi - lo + 1) |->
        ((lo + i - 1) \div 12) * 10000 + (((lo + i - 1) % 12) + 1) * 100 + 1]

\* what C12 says of one call
PartitionOf(c) ==
    LET lo == MonthIndex(monthArgs.start_d)
        hi == MonthIndex(monthArgs.end_d)
    IN  /\ DateLE(monthArgs.start_d, monthArgs.end_d) =>
              ~monthOut[c].raised /\ monthOut[c].months = MarkersOf(lo, hi)
        /\ lo > hi =>
              /\ ~monthOut[c].raised /\ monthOut[c].months = <<>>
              /\ \A f \in 1..Len(monthOut[c].range) :
                    /\ ~monthOut[c].range[f].raised
                    /\ monthOut[c].range[f].misses = <<>>
                    /\ monthOut[c].range[f].rows = <<>>

\* C12: for start_d <= end_d month_list returns one marker for each month
\* from start_d's to end_d's, in ascending order; for a start month after the
\* end month it returns the empty list, and fetch_range then requests
\* nothing and returns the empty series.
C12_MonthPartition == \A c \in 1..Len(monthOut) : PartitionOf(c)

\* the same for the ranges that do not end in December of MaxYear
PartitionBeforeLastMonth ==
    (monthArgs.end_d[1] = MaxYear /\ monthArgs.end_d[2] = 12)
    \/ C12_MonthPartition

=============================================================================
